---- MODULE Spec2Model ----
(***************************************************************************)
(* JointController system plugin (gz-sim):                                 *)
(*   src/src/systems/joint_controller/JointController.cc                   *)
(*                                                                         *)
(* Two execution contexts act on one JointControllerPrivate:               *)
(*   - the simulation-step context, running Configure once and then        *)
(*     PreUpdate once per iteration;                                       *)
(*   - the transport context, running OnCmdVel for every Double message.   *)
(* PreUpdate and OnCmdVel are split at the points where they take and      *)
(* release jointVelCmdMutex, so that every interleaving of the two         *)
(* critical sections is explored.  The EntityComponentManager is only      *)
(* touched by the step context and, between two PreUpdate calls, by the    *)
(* rest of the simulation (entity creation, physics).                      *)
(*                                                                         *)
(* Times (_info.dt) are integer clock ticks, as steady_clock::duration is. *)
(* Velocities and commands are even integers, so that the derivative       *)
(* quotient of the PID is exact for every dt of Dts.                       *)
(***************************************************************************)
EXTENDS Integers, FiniteSets

\* ---------------------------------------------------------------- bounds
\* The ghost counter of completed command writes since the last read of
\* the command saturates at MaxWrites.
MaxWrites == 2

\* ------------------------------------------------------------- constants
\* Entity.hh: the null entity.
kNullEntity == 0

\* Entities that carry a components::Model in the ECM.
ModelEntities == {1}

\* Entities a JointController may be attached to (the second is no model).
AttachEntities == {1, 2}

\* The joints that the simulation may create: entity id, ParentEntity, Name.
JointCatalog ==
  { [id |-> 11, parent |-> 1, name |-> "j1"],
    [id |-> 12, parent |-> 1, name |-> ""] }

JointIds == {j.id : j \in JointCatalog}

\* <joint_name> values of the SDF element.
JointNames == {"", "j1"}

\* Command values carried by msgs::Double and by <initial_velocity>.
Cmds == {-2, 2}

\* Measured joint velocities written by physics.
Vels == {0, 2}

\* _info.dt values: a jump back in time, a zero step, two forward steps.
Dts == {-1, 0, 1, 2}

\* A component slot of an entity: <<>> when the entity has no such
\* component, <<v>> when it has one with data v.
NoComp == <<>>

Comp(v) == <<v>>

Data(c) == c[1]

\* components::JointVelocity() : the default value of a measured velocity.
DefaultJointVelocity == Comp(0)

\* ------------------------------------------------------------------- PID
\* <p_gain>, <i_gain>, <d_gain>, <i_max>, <i_min>, <cmd_max>, <cmd_min>,
\* <cmd_offset> combinations read by Configure in force mode.
PidParams ==
  { [pGain |-> 2, iGain |-> 0, dGain |-> 0, iMax |-> 1, iMin |-> -1,
     cmdMax |-> 3, cmdMin |-> -3, cmdOffset |-> 0],
    [pGain |-> 1, iGain |-> 1, dGain |-> 1, iMax |-> 2, iMin |-> -2,
     cmdMax |-> 6, cmdMin |-> -6, cmdOffset |-> 1] }

\* math::PID state right after construction or Init: no accumulated error.
PidInit(p) ==
  [pGain |-> p.pGain, iGain |-> p.iGain, dGain |-> p.dGain,
   iMax |-> p.iMax, iMin |-> p.iMin,
   cmdMax |-> p.cmdMax, cmdMin |-> p.cmdMin, cmdOffset |-> p.cmdOffset,
   iErr |-> 0, pErrLast |-> 0, first |-> TRUE]

\* The default-constructed velPid member (never initialised in velocity mode).
PidDefault ==
  PidInit([pGain |-> 0, iGain |-> 0, dGain |-> 0, iMax |-> 0, iMin |-> 0,
           cmdMax |-> 0, cmdMin |-> 0, cmdOffset |-> 0])

Clamp(x, lo, hi) == IF x < lo THEN lo ELSE IF x > hi THEN hi ELSE x

\* Integral accumulator after Update(error, dt).
PidIErr(pid, error, dt) ==
  IF dt > 0 THEN Clamp(pid.iErr + error * dt, pid.iMin, pid.iMax)
            ELSE pid.iErr

\* Derivative term of Update(error, dt).
PidDTerm(pid, error, dt) ==
  IF pid.first \/ dt <= 0 THEN 0
  ELSE (pid.dGain * (error - pid.pErrLast)) \div dt

\* Raw (unclamped) output of Update(error, dt).
PidRaw(pid, error, dt) ==
  pid.pGain * error + pid.iGain * PidIErr(pid, error, dt)
    + PidDTerm(pid, error, dt) + pid.cmdOffset

\* math::PID::Update(error, dt): the new controller and the returned command.
PidUpdate(pid, error, dt) ==
  [pid |-> [pid EXCEPT !.iErr = PidIErr(pid, error, dt),
                       !.pErrLast = error,
                       !.first = FALSE],
   cmd |-> Clamp(PidRaw(pid, error, dt), pid.cmdMin, pid.cmdMax)]

\* ------------------------------------------------------------------ state
VARIABLES
  configured,        \* "no": constructed; "failed"/"ok": Configure returned
  model,             \* dataPtr->model (the entity of the Model interface)
  jointName,         \* dataPtr->jointName
  jointEntity,       \* dataPtr->jointEntity
  jointVelCmd,       \* dataPtr->jointVelCmd
  jointVelCmdMutex,  \* owner of dataPtr->jointVelCmdMutex: "free","step","cb"
  useForceCommands,  \* dataPtr->useForceCommands
  velPid,            \* dataPtr->velPid
  joints,            \* ECM: the joints that exist (records of JointCatalog)
  jointVelocity,     \* ECM: components::JointVelocity slot of each joint
  jointVelocityCmd,  \* ECM: components::JointVelocityCmd slot of each joint
  jointForceCmd,     \* ECM: components::JointForceCmd slot of each joint
  stepPc,            \* position of the step context inside PreUpdate
  info,              \* _info of the current (or last) PreUpdate: dt, paused
  targetVel,         \* local targetVel of the current (or last) PreUpdate
  cbPc,              \* position of the transport context inside OnCmdVel
  msg,               \* _msg.data() of the current (or last) OnCmdVel
  delivered,         \* ghost: some OnCmdVel has written the command
  stepTick,          \* ghost: flips at every PreUpdate call
  last,              \* ghost: what the current (or last) PreUpdate did
  lastCompleted,     \* ghost: value of the most recent completed write, or
                     \*        <initial_velocity> (0 without it) before any
  writesSinceRead    \* ghost: completed writes since the last read

ctrl == <<configured, model, jointName, jointEntity, useForceCommands>>

ecm == <<jointVelocity, jointVelocityCmd, jointForceCmd>>

stepv == <<stepPc, info, targetVel, stepTick, last>>

cbv == <<cbPc, msg, delivered>>

vars == <<configured, model, jointName, jointEntity, jointVelCmd,
          jointVelCmdMutex, useForceCommands, velPid, joints, jointVelocity,
          jointVelocityCmd, jointForceCmd, stepPc, info, targetVel, cbPc, msg,
          delivered, stepTick, last, lastCompleted, writesSinceRead>>

\* What a PreUpdate call did: whether it called JointByName, created the
\* JointVelocity component, wrote a command slot, found that slot already
\* there, the raw PID output it computed, how many command writes had
\* completed since the previous read when it read the command, the
\* measured velocity it used, and whether it repeats the call before it
\* (that call wrote a command slot, and this one has the same dt, the same
\* measured velocity and, once it has read it, the same command).
LastNone ==
  [lookup |-> FALSE, created |-> FALSE, wrote |-> FALSE,
   existed |-> FALSE, raw |-> 0, writes |-> 0, measured |-> 0,
   repeats |-> FALSE]

\* State after JointController::JointController(): make_unique value-
\* initialises JointControllerPrivate.
Init ==
  /\ configured = "no"
  /\ model = kNullEntity
  /\ jointName = ""
  /\ jointEntity = kNullEntity
  /\ jointVelCmd = 0
  /\ jointVelCmdMutex = "free"
  /\ useForceCommands = FALSE
  /\ velPid = PidDefault
  /\ joints = {}
  /\ jointVelocity = [j \in JointIds |-> NoComp]
  /\ jointVelocityCmd = [j \in JointIds |-> NoComp]
  /\ jointForceCmd = [j \in JointIds |-> NoComp]
  /\ stepPc = "idle"
  /\ info = [dt |-> 0, paused |-> FALSE]
  /\ targetVel = 0
  /\ cbPc = "idle"
  /\ msg = 0
  /\ delivered = FALSE
  /\ stepTick = 0
  /\ last = LastNone
  /\ lastCompleted = 0
  /\ writesSinceRead = 0

\* ---------------------------------------------------------------- Configure
\* Model::Valid: the entity has a components::Model.
Valid(entity) == entity \in ModelEntities

\* Optional SDF element <initial_velocity>: absent, or one value.
SdfInitialVelocity == {NoComp} \cup {Comp(c) : c \in Cmds}

\* Variant: <initial_velocity> is not read.
InitialCmd_Ignored(initial, old) == old

\* jointVelCmd after the <initial_velocity> block: the value of the element
\* when the SDF has it, the value the member already had otherwise.
InitialCmd(initial, old) == IF initial # NoComp THEN Data(initial) ELSE old

\* Variant: i_max and i_min are passed to Init in each other's place.
VelPidInit_LimitsSwapped(params) ==
  PidInit([params EXCEPT !.iMax = params.iMin, !.iMin = params.iMax])

\* velPid.Init(p, i, d, iMax, iMin, cmdMax, cmdMin, cmdOffset).
VelPidInit(params) == PidInit(params)

\* JointController::Configure.
Configure(entity, name, initial, force, params) ==
  /\ configured = "no"
  /\ stepPc = "idle"
  /\ model' = entity
  /\ IF ~Valid(entity)
     THEN /\ configured' = "failed"
          /\ UNCHANGED <<jointName, jointVelCmd, useForceCommands, velPid,
                         lastCompleted>>
     ELSE /\ jointName' = name
          /\ IF name = ""
             THEN /\ configured' = "failed"
                  /\ UNCHANGED <<jointVelCmd, useForceCommands, velPid,
                                 lastCompleted>>
             ELSE /\ configured' = "ok"
                  /\ jointVelCmd' = InitialCmd(initial, jointVelCmd)
                  /\ lastCompleted' =
                       IF initial # NoComp THEN Data(initial) ELSE 0
                  /\ IF force
                     THEN /\ useForceCommands' = TRUE
                          /\ velPid' = VelPidInit(params)
                     ELSE UNCHANGED <<useForceCommands, velPid>>
  /\ UNCHANGED <<jointEntity, jointVelCmdMutex, joints, ecm, stepv, cbv,
                 writesSinceRead>>

\* ------------------------------------------------- the rest of the simulation
\* An entity with components::Joint, ParentEntity and Name is created.
CreateJoint(j) ==
  /\ stepPc = "idle"
  /\ j \notin joints
  /\ joints' = joints \cup {j}
  /\ UNCHANGED <<ctrl, jointVelCmd, jointVelCmdMutex, velPid, ecm, stepv, cbv,
                 lastCompleted, writesSinceRead>>

\* Physics writes the measured velocity of a joint that has the component.
PhysicsUpdate(id, v) ==
  /\ stepPc = "idle"
  /\ jointVelocity[id] # NoComp
  /\ jointVelocity' = [jointVelocity EXCEPT ![id] = Comp(v)]
  /\ UNCHANGED <<ctrl, jointVelCmd, jointVelCmdMutex, velPid, joints,
                 jointVelocityCmd, jointForceCmd, stepv, cbv, lastCompleted,
                 writesSinceRead>>

\* ---------------------------------------------------------------- PreUpdate
\* Model::JointByName: the joint with that parent and name, or kNullEntity.
JointByName(js, parent, name) ==
  LET found == {j \in js : j.parent = parent /\ j.name = name}
  IN  IF found = {} THEN kNullEntity ELSE (CHOOSE j \in found : TRUE).id

\* Variant: a step with a negative dt returns after the warning.
JumpBackReturn_Aborts(i) == i.dt < 0

\* The check for a jump back in time (_info.dt < 0) only logs a warning:
\* it never makes PreUpdate return.
JumpBackReturn(i) == FALSE

\* Variant: the pause check comes before the lookup.
LookupSkipped_WhenPaused(i) == i.paused

\* The lookup is the first thing PreUpdate does after the warning: no
\* early return, the one for a paused simulation included, precedes it.
LookupSkipped(i) == FALSE

\* Variant: the lookup is repeated on every step.
NeedsLookup_Always(je) == TRUE

\* "If the joint hasn't been identified yet, look for it".
NeedsLookup(je) == je = kNullEntity

\* Return of an unresolved step.
Unresolved(je) == je = kNullEntity

\* Variant: the pause flag is ignored.
PausedReturn_Never(i) == FALSE

\* "Nothing left to do if paused."
PausedReturn(i) == i.paused

\* Variant: the pointer is fetched again after CreateComponent.
JointVelCompChecked_Refetched(before, after) == after

\* The jointVelComp pointer tested and used after the creation branch: the
\* one fetched before CreateComponent (before), not the created one (after).
JointVelCompChecked(before, after) == before

\* Variant of PreUpdateBegin: a step that finds no joint clears the command.
PreUpdateBegin_UnresolvedClears(dt, paused) ==
  LET i  == [dt |-> dt, paused |-> paused]
      lk == ~JumpBackReturn(i) /\ ~LookupSkipped(i) /\ NeedsLookup(jointEntity)
      je == IF lk THEN JointByName(joints, model, jointName) ELSE jointEntity
  IN  /\ configured # "no"
      /\ stepPc = "idle"
      /\ jointEntity' = je
      /\ info' = i
      /\ stepTick' = 1 - stepTick
      /\ IF JumpBackReturn(i) \/ Unresolved(je) \/ PausedReturn(i)
         THEN /\ stepPc' = "idle"
              /\ last' = [LastNone EXCEPT !.lookup = lk]
              /\ jointVelCmd' = IF Unresolved(je) THEN 0 ELSE jointVelCmd
              /\ UNCHANGED jointVelocity
         ELSE LET before  == jointVelocity[je]
                  created == before = NoComp
                  after   == IF created THEN DefaultJointVelocity ELSE before
              IN  /\ jointVelocity' = [jointVelocity EXCEPT ![je] = after]
                  /\ last' = [LastNone EXCEPT
                                !.lookup = lk,
                                !.created = created,
                                !.repeats = /\ last.wrote
                                            /\ info.dt = dt
                                            /\ before = Comp(last.measured)]
                  /\ stepPc' = IF JointVelCompChecked(before, after) = NoComp
                               THEN "idle" ELSE "lock"
                  /\ UNCHANGED jointVelCmd
      /\ UNCHANGED <<configured, model, jointName, useForceCommands,
                     jointVelCmdMutex, velPid, joints,
                     jointVelocityCmd, jointForceCmd, targetVel, cbv,
                     lastCompleted, writesSinceRead>>

\* First part of PreUpdate, up to the read of the command: the time check,
\* the lookup of the joint, the pause check and the creation of the
\* JointVelocity component.
PreUpdateBegin(dt, paused) ==
  LET i  == [dt |-> dt, paused |-> paused]
      lk == ~JumpBackReturn(i) /\ ~LookupSkipped(i) /\ NeedsLookup(jointEntity)
      je == IF lk THEN JointByName(joints, model, jointName) ELSE jointEntity
  IN  /\ configured # "no"
      /\ stepPc = "idle"
      /\ jointEntity' = je
      /\ info' = i
      /\ stepTick' = 1 - stepTick
      /\ IF JumpBackReturn(i) \/ Unresolved(je) \/ PausedReturn(i)
         THEN /\ stepPc' = "idle"
              /\ last' = [LastNone EXCEPT !.lookup = lk]
              /\ UNCHANGED jointVelocity
         ELSE LET before  == jointVelocity[je]
                  created == before = NoComp
                  after   == IF created THEN DefaultJointVelocity ELSE before
              IN  /\ jointVelocity' = [jointVelocity EXCEPT ![je] = after]
                  /\ last' = [LastNone EXCEPT
                                !.lookup = lk,
                                !.created = created,
                                !.repeats = /\ last.wrote
                                            /\ info.dt = dt
                                            /\ before = Comp(last.measured)]
                  /\ stepPc' = IF JointVelCompChecked(before, after) = NoComp
                               THEN "idle" ELSE "lock"
      /\ UNCHANGED <<configured, model, jointName, useForceCommands,
                     jointVelCmd, jointVelCmdMutex, velPid, joints,
                     jointVelocityCmd, jointForceCmd, targetVel, cbv,
                     lastCompleted, writesSinceRead>>

\* Variant: the mutex is not waited for.
CanLock_NoWait(owner) == TRUE

\* std::lock_guard's constructor returns once the mutex is free.
CanLock(owner) == owner = "free"

\* std::lock_guard<std::mutex> lock(jointVelCmdMutex) in PreUpdate.
PreUpdateLock ==
  /\ stepPc = "lock"
  /\ CanLock(jointVelCmdMutex)
  /\ jointVelCmdMutex' = "step"
  /\ stepPc' = "read"
  /\ UNCHANGED <<ctrl, jointVelCmd, velPid, joints, ecm, info, targetVel,
                 stepTick, last, cbv, lastCompleted, writesSinceRead>>

\* Variant: the read consumes the command, leaving 0 in the store.
PreUpdateRead_Consumes ==
  /\ stepPc = "read"
  /\ targetVel' = jointVelCmd
  /\ jointVelCmd' = 0
  /\ last' = [last EXCEPT !.writes = writesSinceRead,
                          !.repeats = last.repeats /\ targetVel = jointVelCmd]
  /\ writesSinceRead' = 0
  /\ stepPc' = "unlock"
  /\ UNCHANGED <<ctrl, jointVelCmdMutex, velPid, joints, ecm,
                 info, stepTick, cbv, lastCompleted>>

\* targetVel = jointVelCmd.
PreUpdateRead ==
  /\ stepPc = "read"
  /\ targetVel' = jointVelCmd
  /\ last' = [last EXCEPT !.writes = writesSinceRead,
                          !.repeats = last.repeats /\ targetVel = jointVelCmd]
  /\ writesSinceRead' = 0
  /\ stepPc' = "unlock"
  /\ UNCHANGED <<ctrl, jointVelCmd, jointVelCmdMutex, velPid, joints, ecm,
                 info, stepTick, cbv, lastCompleted>>

\* End of the scope of the lock_guard.
PreUpdateUnlock ==
  /\ stepPc = "unlock"
  /\ jointVelCmdMutex' = "free"
  /\ stepPc' = "write"
  /\ UNCHANGED <<ctrl, jointVelCmd, velPid, joints, ecm, info, targetVel,
                 stepTick, last, cbv, lastCompleted, writesSinceRead>>

\* Variant: the two branches are swapped.
ForceMode_Swapped(useForce) == ~useForce

\* The branch taken on useForceCommands.
ForceMode(useForce) == useForce

\* Variant: the operands of the subtraction are swapped.
VelError_Swapped(measured, target) == target - measured

\* error = jointVelComp->Data().at(0) - targetVel.
VelError(measured, target) == measured - target

\* Variant: an existing force command is added to, not replaced.
ForceCmdWrite_Accumulate(slots, je, force) ==
  IF slots[je] = NoComp
  THEN [slots EXCEPT ![je] = Comp(force)]
  ELSE [slots EXCEPT ![je] = Comp(Data(slots[je]) + force)]

\* JointForceCmd of the joint: created with force, or overwritten by it.
ForceCmdWrite(slots, je, force) ==
  IF slots[je] = NoComp
  THEN [slots EXCEPT ![je] = Comp(force)]
  ELSE [slots EXCEPT ![je] = Comp(force)]

\* Variant: an existing velocity command is left as it is.
VelocityCmdWrite_CreateOnly(slots, je, target) ==
  IF slots[je] = NoComp
  THEN [slots EXCEPT ![je] = Comp(target)]
  ELSE slots

\* Variant: the target is added to an existing velocity command.
VelocityCmdWrite_Accumulate(slots, je, target) ==
  IF slots[je] = NoComp
  THEN [slots EXCEPT ![je] = Comp(target)]
  ELSE [slots EXCEPT ![je] = Comp(Data(slots[je]) + target)]

\* JointVelocityCmd of the joint: created with target, or overwritten by it.
VelocityCmdWrite(slots, je, target) ==
  IF slots[je] = NoComp
  THEN [slots EXCEPT ![je] = Comp(target)]
  ELSE [slots EXCEPT ![je] = Comp(target)]

\* Last part of PreUpdate: the force-mode or the velocity-mode branch.
PreUpdateWrite ==
  /\ stepPc = "write"
  /\ stepPc' = "idle"
  /\ IF ForceMode(useForceCommands)
     THEN LET error == VelError(Data(jointVelocity[jointEntity]), targetVel)
              upd   == PidUpdate(velPid, error, info.dt)
          IN  /\ velPid' = upd.pid
              /\ jointForceCmd' =
                   ForceCmdWrite(jointForceCmd, jointEntity, upd.cmd)
              /\ last' = [last EXCEPT
                            !.wrote = TRUE,
                            !.existed = jointForceCmd[jointEntity] # NoComp,
                            !.raw = PidRaw(velPid, error, info.dt),
                            !.measured = Data(jointVelocity[jointEntity])]
              /\ UNCHANGED jointVelocityCmd
     ELSE /\ jointVelocityCmd' =
               VelocityCmdWrite(jointVelocityCmd, jointEntity, targetVel)
          /\ last' = [last EXCEPT
                        !.wrote = TRUE,
                        !.existed = jointVelocityCmd[jointEntity] # NoComp,
                        !.measured = Data(jointVelocity[jointEntity])]
          /\ UNCHANGED <<velPid, jointForceCmd>>
  /\ UNCHANGED <<ctrl, jointVelCmd, jointVelCmdMutex, joints, jointVelocity,
                 info, targetVel, stepTick, cbv, lastCompleted,
                 writesSinceRead>>

\* ----------------------------------------------------------------- OnCmdVel
\* The transport node invokes the subscribed callback with a message.
OnCmdVelCall(m) ==
  /\ configured = "ok"
  /\ cbPc = "idle"
  /\ msg' = m
  /\ cbPc' = "lock"
  /\ UNCHANGED <<ctrl, jointVelCmd, jointVelCmdMutex, velPid, joints, ecm,
                 stepv, delivered, lastCompleted, writesSinceRead>>

\* std::lock_guard<std::mutex> lock(jointVelCmdMutex) in OnCmdVel.
OnCmdVelLock ==
  /\ cbPc = "lock"
  /\ CanLock(jointVelCmdMutex)
  /\ jointVelCmdMutex' = "cb"
  /\ cbPc' = "write"
  /\ UNCHANGED <<ctrl, jointVelCmd, velPid, joints, ecm, stepv, msg,
                 delivered, lastCompleted, writesSinceRead>>

\* Variant: the message is added to the stored command.
CmdWrite_Accumulate(old, m) == old + m

\* The value jointVelCmd takes: jointVelCmd = _msg.data().
CmdWrite(old, m) == m

OnCmdVelWrite ==
  /\ cbPc = "write"
  /\ jointVelCmd' = CmdWrite(jointVelCmd, msg)
  /\ cbPc' = "unlock"
  /\ delivered' = TRUE
  /\ UNCHANGED <<ctrl, jointVelCmdMutex, velPid, joints, ecm, stepv, msg,
                 lastCompleted, writesSinceRead>>

\* Return of OnCmdVel: the lock_guard releases the mutex; the write is done.
OnCmdVelUnlock ==
  /\ cbPc = "unlock"
  /\ jointVelCmdMutex' = "free"
  /\ cbPc' = "idle"
  /\ lastCompleted' = msg
  /\ writesSinceRead' =
       IF writesSinceRead < MaxWrites THEN writesSinceRead + 1 ELSE MaxWrites
  /\ UNCHANGED <<ctrl, jointVelCmd, velPid, joints, ecm, stepv, msg,
                 delivered>>

\* ------------------------------------------------------------ specification
Next ==
  \/ \E entity \in AttachEntities, name \in JointNames,
        initial \in SdfInitialVelocity, force \in BOOLEAN,
        params \in PidParams :
       Configure(entity, name, initial, force, params)
  \/ \E j \in JointCatalog : CreateJoint(j)
  \/ \E id \in JointIds, v \in Vels : PhysicsUpdate(id, v)
  \/ \E dt \in Dts, paused \in BOOLEAN : PreUpdateBegin(dt, paused)
  \/ PreUpdateLock
  \/ PreUpdateRead
  \/ PreUpdateUnlock
  \/ PreUpdateWrite
  \/ \E m \in Cmds : OnCmdVelCall(m)
  \/ OnCmdVelLock
  \/ OnCmdVelWrite
  \/ OnCmdVelUnlock

Spec == Init /\ [][Next]_vars

\* One call of PreUpdate by the simulation runner.
PreUpdateCalled == \E dt \in Dts, paused \in BOOLEAN : PreUpdateBegin(dt, paused)

\* The runner keeps calling PreUpdate, once per simulation step, for as
\* long as the system is loaded.
FairSpec == Spec /\ WF_vars(PreUpdateCalled)

\* ------------------------------------------------------------------ claims
\* A PreUpdate call is the transition that flips stepTick; it ends the step
\* unless it leaves stepPc at "lock".
StepCalled == stepTick' # stepTick

\* The write part of PreUpdate is the transition that leaves "write".
StepWrites == stepPc = "write" /\ stepPc' = "idle"

\* C1: latest-command-wins. Whenever the step context has read the command
\* (it still holds the mutex), the value it read is the value of the most
\* recent completed write, or the initial value when no write has completed;
\* while it holds the mutex before reading, the store holds that value too.
C1_LatestCommandWins ==
  /\ stepPc = "unlock" => targetVel = lastCompleted
  /\ stepPc = "read" => jointVelCmd = lastCompleted

\* C1 witness: a read made after at least two completed writes.
C1_Witness ==
  /\ stepPc = "unlock"
  /\ last.writes >= 2
  /\ targetVel = lastCompleted
  /\ targetVel = msg

\* C2: mode exclusivity. The mode does not change once Configure has
\* returned; in velocity mode no joint ever has a force-command slot, in
\* force mode no joint ever has a velocity-command slot.
C2_ModeExclusivity ==
  /\ [](\A id \in JointIds :
          /\ ~useForceCommands => jointForceCmd[id] = NoComp
          /\ useForceCommands => jointVelocityCmd[id] = NoComp)
  /\ [][configured # "no" => useForceCommands' = useForceCommands]_vars

\* C2 witness: a velocity-mode instance has written its velocity command.
C2_Witness ==
  /\ configured = "ok"
  /\ ~useForceCommands
  /\ last.wrote
  /\ jointVelocityCmd[jointEntity] # NoComp

\* C3: pause no-op. A PreUpdate call with the pause flag set returns at
\* once, leaving every component of the store and the PID as they were.
C3_PauseNoOp ==
  [][(StepCalled /\ info'.paused)
       => (stepPc' = "idle" /\ UNCHANGED <<ecm, velPid>>)]_vars

\* C3 witness: a paused step of a force-mode instance whose joint is
\* resolved and already has a force command.
C3_Witness ==
  /\ stepPc = "idle"
  /\ info.paused
  /\ useForceCommands
  /\ jointEntity # kNullEntity
  /\ jointForceCmd[jointEntity] # NoComp
  /\ info.dt = 1

\* C4: resolution monotonicity. Once jointEntity is not the null entity it
\* keeps its value, and no later PreUpdate call looks the joint up again.
C4_ResolutionMonotonic ==
  [][jointEntity # kNullEntity
       => (jointEntity' = jointEntity /\ (StepCalled => ~last'.lookup))]_vars

\* C4 witness: a complete step made with the joint found by an earlier
\* step, while a second joint exists in the model.
C4_Witness ==
  /\ configured = "ok"
  /\ jointEntity # kNullEntity
  /\ ~last.lookup
  /\ last.wrote
  /\ Cardinality(joints) = 2

\* C5: a failed Configure leaves the instance inert. After Configure has
\* aborted, no component of any joint exists or is written by the
\* controller and the PID never changes.
C5_FailedConfigureInert ==
  configured = "failed"
    => /\ \A id \in JointIds :
            /\ jointVelocity[id] = NoComp
            /\ jointVelocityCmd[id] = NoComp
            /\ jointForceCmd[id] = NoComp
       /\ velPid = PidDefault

\* C6 as stated: a step that has created the measured-velocity component
\* goes on, in the same call, to write the command slot of its mode.
C6_CreationStepWrites ==
  (configured = "ok" /\ stepPc = "idle" /\ last.created) => last.wrote

\* C6 amended: an unpaused step with a resolved joint that has no
\* measured-velocity component creates it with the default value and then
\* returns, without reading the command, updating the PID or writing a
\* command slot; an unpaused step with a resolved joint that has the
\* component at its start goes on to read the command.
C6_CreationStepReturns ==
  [][(StepCalled /\ jointEntity' # kNullEntity /\ ~info'.paused)
       => IF jointVelocity[jointEntity'] = NoComp
          THEN /\ jointVelocity'[jointEntity'] = DefaultJointVelocity
               /\ last'.created
               /\ stepPc' = "idle"
               /\ UNCHANGED <<jointVelocityCmd, jointForceCmd, velPid,
                              targetVel>>
          ELSE /\ ~last'.created
               /\ stepPc' = "lock"
               /\ UNCHANGED ecm]_vars

\* C6 witness: the step that created the component has returned and no
\* command slot has been written.
C6_Witness ==
  /\ configured = "ok"
  /\ stepPc = "idle"
  /\ last.created
  /\ ~last.wrote
  /\ jointVelocity[jointEntity] = DefaultJointVelocity
  /\ jointVelocityCmd[jointEntity] = NoComp
  /\ jointForceCmd[jointEntity] = NoComp

\* C7: unresolved no-op. A PreUpdate call after which jointEntity is still
\* the null entity has looked the joint up, returns at once, and leaves the
\* store, the command, its mutex, the PID and the configuration unchanged.
C7_UnresolvedNoOp ==
  [][(StepCalled /\ jointEntity' = kNullEntity)
       => /\ last'.lookup
          /\ stepPc' = "idle"
          /\ UNCHANGED <<ecm, jointVelCmd, jointVelCmdMutex, velPid,
                         configured>>]_vars

\* C7 witness: an unpaused step of a configured instance with a pending
\* command has ended unresolved.
C7_Witness ==
  /\ configured = "ok"
  /\ stepTick = 1
  /\ stepPc = "idle"
  /\ ~info.paused
  /\ jointEntity = kNullEntity
  /\ last.lookup
  /\ jointVelCmd # 0

\* C8: velocity-mode passthrough. An unpaused step of a velocity-mode
\* instance with a resolved joint that has a measured velocity goes on to
\* read the command, and its write part leaves the velocity-command slot of
\* the joint holding exactly the value read, whether or not the slot
\* existed, and touches nothing else in the store.
C8_VelocityPassthrough ==
  /\ [][(StepCalled /\ ~useForceCommands /\ jointEntity' # kNullEntity
           /\ ~info'.paused /\ jointVelocity[jointEntity'] # NoComp)
          => stepPc' = "lock"]_vars
  /\ [][(StepWrites /\ ~useForceCommands)
          => /\ jointVelocityCmd' =
                  [jointVelocityCmd EXCEPT ![jointEntity] = Comp(targetVel)]
             /\ UNCHANGED <<jointVelocity, jointForceCmd, velPid>>]_vars
  /\ []((stepPc = "idle" /\ last.wrote /\ ~useForceCommands)
          => jointVelocityCmd[jointEntity] = Comp(targetVel))

\* C8 witness: a velocity command that existed has been overwritten by a
\* different value.
C8_Witness ==
  /\ configured = "ok"
  /\ ~useForceCommands
  /\ stepPc = "idle"
  /\ last.wrote
  /\ last.existed
  /\ targetVel = 2
  /\ lastCompleted = 2
  /\ last.writes = 1
  /\ jointVelocityCmd[jointEntity] = Comp(2)

\* C9: force-mode write. The write part of a force-mode step updates the
\* PID exactly once, with error = measured velocity - command read and the
\* dt of the step, and leaves the force-command slot of the joint holding
\* the value Update returned, whether or not the slot existed; the PID
\* changes nowhere else after Configure.
C9_ForceWrite ==
  /\ [][(StepCalled /\ useForceCommands /\ jointEntity' # kNullEntity
           /\ ~info'.paused /\ jointVelocity[jointEntity'] # NoComp)
          => stepPc' = "lock"]_vars
  /\ [][(StepWrites /\ useForceCommands)
          => LET error == Data(jointVelocity[jointEntity]) - targetVel
                 upd   == PidUpdate(velPid, error, info.dt)
             IN  /\ velPid' = upd.pid
                 /\ jointForceCmd' =
                      [jointForceCmd EXCEPT ![jointEntity] = Comp(upd.cmd)]
                 /\ UNCHANGED <<jointVelocity, jointVelocityCmd>>]_vars
  /\ [][(configured # "no" /\ velPid' # velPid) => StepWrites]_vars

\* C9 witness: a force command that existed has been overwritten after a
\* PID update with a non-zero error and a positive dt.
C9_Witness ==
  /\ useForceCommands
  /\ stepPc = "idle"
  /\ last.wrote
  /\ last.existed
  /\ info.dt = 2
  /\ velPid.pErrLast = 4
  /\ ~velPid.first

\* C10: output saturation. Every force command in the store lies in
\* [cmdMin, cmdMax], and the one a force-mode step has just written is the
\* raw PID output when that lies in the interval and the nearest bound
\* otherwise.
C10_OutputSaturation ==
  /\ \A id \in JointIds :
       jointForceCmd[id] # NoComp
         => /\ velPid.cmdMin <= Data(jointForceCmd[id])
            /\ Data(jointForceCmd[id]) <= velPid.cmdMax
  /\ (stepPc = "idle" /\ last.wrote /\ useForceCommands)
       => jointForceCmd[jointEntity] =
            Comp(IF last.raw > velPid.cmdMax THEN velPid.cmdMax
                 ELSE IF last.raw < velPid.cmdMin THEN velPid.cmdMin
                 ELSE last.raw)

\* C10 witness: a raw output above cmdMax has been written as cmdMax.
C10_Witness ==
  /\ useForceCommands
  /\ stepPc = "idle"
  /\ last.wrote
  /\ last.raw > velPid.cmdMax
  /\ jointForceCmd[jointEntity] = Comp(velPid.cmdMax)

\* C11: anti-windup. The integral accumulator is 0 when Configure returns
\* and lies in [iMin, iMax] in every state; an Update with a positive error
\* and a positive dt either brings it to iMax or strictly raises it, and
\* never takes it from iMax; the integral contribution iGain * accumulator
\* never exceeds iGain * iMax.
C11_AntiWindup ==
  /\ [](velPid.iMin <= velPid.iErr /\ velPid.iErr <= velPid.iMax)
  /\ [][(configured = "no" /\ configured' # "no") => velPid'.iErr = 0]_vars
  /\ [][(StepWrites /\ useForceCommands /\ info.dt > 0
           /\ Data(jointVelocity[jointEntity]) - targetVel > 0)
          => /\ velPid'.iErr = velPid.iMax \/ velPid'.iErr > velPid.iErr
             /\ velPid.iErr = velPid.iMax => velPid'.iErr = velPid.iMax
             /\ velPid.iGain * velPid'.iErr
                  <= velPid.iGain * velPid.iMax]_vars

\* C11 witness: with a positive integral gain, a second Update with a
\* positive error and a positive dt has left the accumulator at iMax.
C11_Witness ==
  /\ useForceCommands
  /\ velPid.iGain > 0
  /\ stepPc = "idle"
  /\ last.wrote
  /\ last.existed
  /\ info.dt > 0
  /\ velPid.pErrLast > 0
  /\ velPid.iErr = velPid.iMax

\* A transition of the step context: a PreUpdate call or one of its parts.
StepMoves == StepCalled \/ stepPc' # stepPc

\* The read of the command by PreUpdate.
StepReads == stepPc = "read" /\ stepPc' = "unlock"

\* C12: command persistence. Once Configure has returned, jointVelCmd
\* changes only by the write of OnCmdVel, to the value of its message; no
\* transition of the step context changes it, and each read copies the
\* stored value, so a read with no write completed since the previous read
\* yields the value of the last completed write again.
C12_CommandPersists ==
  /\ [][(configured # "no" /\ jointVelCmd' # jointVelCmd)
          => (cbPc = "write" /\ cbPc' = "unlock" /\ jointVelCmd' = msg)]_vars
  /\ [][StepMoves => jointVelCmd' = jointVelCmd]_vars
  /\ [][StepReads => targetVel' = jointVelCmd]_vars
  /\ []((stepPc = "unlock" /\ last.writes = 0) => targetVel = lastCompleted)

\* C12 witness: a message was delivered, a step has read it, and a later
\* step reads the same value with no delivery in between.
C12_Witness ==
  /\ stepPc = "unlock"
  /\ last.writes = 0
  /\ cbPc = "idle"
  /\ msg = 2
  /\ targetVel = 2
  /\ jointVelCmd = 2
  /\ lastCompleted = 2

\* C13 as stated: the write part of a step that repeats the step before it
\* (same dt, same command, same measured velocity) leaves the whole store
\* as that step left it, in both modes.
C13_RepeatedStepSameStore ==
  [][(StepWrites /\ last.repeats) => UNCHANGED ecm]_vars

\* C13 amended: the write part of a step that repeats the step before it
\* writes the same slot as that step and nothing else; in velocity mode the
\* store and the PID are left as that step left them; in force mode only
\* the value of the force command of the joint may differ, the PID having
\* moved on.
C13_RepeatedStepSameWrites ==
  [][(StepWrites /\ last.repeats)
       => IF useForceCommands
          THEN /\ jointForceCmd[jointEntity] # NoComp
               /\ jointForceCmd'[jointEntity] # NoComp
               /\ \A id \in JointIds \ {jointEntity} :
                    jointForceCmd'[id] = jointForceCmd[id]
               /\ UNCHANGED <<jointVelocity, jointVelocityCmd>>
          ELSE /\ jointVelocityCmd[jointEntity] = Comp(targetVel)
               /\ UNCHANGED <<ecm, velPid>>]_vars

\* C13 witness: a force-mode step that repeats the step before it has
\* written the force command.
C13_Witness ==
  /\ useForceCommands
  /\ stepPc = "idle"
  /\ last.repeats
  /\ last.wrote
  /\ last.existed
  /\ info.dt = 1
  /\ velPid.iGain > 0

\* C14: initial command. From the return of a successful Configure until
\* an OnCmdVel writes the command, the store holds <initial_velocity>, or 0
\* when the SDF has no such element (lastCompleted holds that value until
\* the first write completes); every read made in that time yields it, and
\* a velocity-mode step that reads and writes in that time writes it to the
\* velocity command of the joint.
C14_InitialCommand ==
  /\ []((configured = "ok" /\ ~delivered) => jointVelCmd = lastCompleted)
  /\ [][(StepReads /\ configured = "ok" /\ ~delivered)
          => targetVel' = lastCompleted]_vars
  /\ [][(StepWrites /\ configured = "ok" /\ ~delivered /\ ~useForceCommands)
          => jointVelocityCmd'[jointEntity] = Comp(lastCompleted)]_vars

\* C14 witness: no message has been received, and a velocity-mode step has
\* created the velocity command with a configured initial velocity of 2.
C14_Witness ==
  /\ configured = "ok"
  /\ ~delivered
  /\ cbPc = "idle"
  /\ ~useForceCommands
  /\ stepPc = "idle"
  /\ last.wrote
  /\ ~last.existed
  /\ jointVelocityCmd[jointEntity] = Comp(2)

\* C15: a negative dt is not special-cased. A PreUpdate call with dt < 0
\* looks the joint up exactly when it is unresolved, keeps a resolved
\* handle, leaves the command and the PID alone, returns when unresolved or
\* paused, creates a missing measured velocity and otherwise goes on to
\* the read; its read copies the stored command; its write part writes the
\* command slot of the mode (the value read, in velocity mode) and leaves
\* the integral accumulator as it was.
C15_NegativeDtNotSpecial ==
  /\ [][(StepCalled /\ info'.dt < 0)
          => /\ last'.lookup = (jointEntity = kNullEntity)
             /\ jointEntity # kNullEntity => jointEntity' = jointEntity
             /\ UNCHANGED <<jointVelCmd, velPid, jointVelocityCmd,
                            jointForceCmd>>
             /\ IF jointEntity' = kNullEntity \/ info'.paused
                THEN stepPc' = "idle" /\ UNCHANGED jointVelocity
                ELSE IF jointVelocity[jointEntity'] = NoComp
                     THEN /\ stepPc' = "idle"
                          /\ jointVelocity'[jointEntity']
                               = DefaultJointVelocity
                     ELSE /\ stepPc' = "lock"
                          /\ UNCHANGED jointVelocity]_vars
  /\ [][(StepReads /\ info.dt < 0)
          => (targetVel' = jointVelCmd /\ jointVelCmd' = jointVelCmd)]_vars
  /\ [][(StepWrites /\ info.dt < 0)
          => /\ UNCHANGED <<jointEntity, jointVelCmd>>
             /\ velPid'.iErr = velPid.iErr
             /\ IF useForceCommands
                THEN jointForceCmd'[jointEntity] # NoComp
                ELSE jointVelocityCmd'[jointEntity] = Comp(targetVel)]_vars

\* C15 witness: a force-mode step with dt = -1 has written the force
\* command while the accumulator holds a non-zero sum.
C15_Witness ==
  /\ useForceCommands
  /\ stepPc = "idle"
  /\ info.dt = -1
  /\ last.wrote
  /\ velPid.iErr # 0
  /\ jointForceCmd[jointEntity] # NoComp

\* The step context is inside its critical section.
StepInCs == stepPc \in {"read", "unlock"}

\* The transport context is inside its critical section.
CbInCs == cbPc \in {"write", "unlock"}

\* C16: lock discipline. The two contexts are never inside their critical
\* sections together, and the mutex is owned exactly by the context that
\* is inside its own. The step context holds the mutex only for the copy
\* of the command: while it holds it, it only reads and unlocks, and the
\* store and the PID change only while it does not hold it. No deadlock: a
\* context inside its critical section can always take its next step, and
\* a context waiting for the mutex can take it unless the other context is
\* inside its critical section, which that context can always leave.
C16_LockDiscipline ==
  /\ [](~(StepInCs /\ CbInCs))
  /\ []((jointVelCmdMutex = "step") = StepInCs)
  /\ []((jointVelCmdMutex = "cb") = CbInCs)
  /\ [](StepInCs => ENABLED (PreUpdateRead \/ PreUpdateUnlock))
  /\ [](CbInCs => ENABLED (OnCmdVelWrite \/ OnCmdVelUnlock))
  /\ [](stepPc = "lock" => (ENABLED PreUpdateLock \/ CbInCs))
  /\ [](cbPc = "lock" => (ENABLED OnCmdVelLock \/ StepInCs))
  /\ [][(jointVelCmdMutex = "step" /\ StepMoves)
          => (StepReads \/ (stepPc = "unlock" /\ jointVelCmdMutex' = "free"))
        ]_vars
  /\ [][(jointVelocity' # jointVelocity \/ jointVelocityCmd' # jointVelocityCmd
           \/ jointForceCmd' # jointForceCmd \/ velPid' # velPid)
          => (jointVelCmdMutex # "step" /\ jointVelCmdMutex' # "step")]_vars

\* C16 witness: a callback waits for the mutex while the step context is
\* about to copy the command.
C16_Witness ==
  /\ stepPc = "read"
  /\ cbPc = "lock"
  /\ jointVelCmdMutex = "step"
  /\ msg # jointVelCmd

\* The joints that the configured name designates under the model.
NamedJoints == {j \in joints : j.parent = model /\ j.name = jointName}

\* C17: retry until resolved. A call of PreUpdate that finds the handle
\* unresolved looks the joint up by name, whether or not the simulation is
\* paused and whatever dt is, and the handle is resolved by the end of that
\* call if the named joint exists under the model and stays unresolved
\* otherwise. If the named joint exists and PreUpdate keeps being called,
\* the handle is eventually resolved.
C17_RetryUntilResolved ==
  /\ [][(StepCalled /\ jointEntity = kNullEntity)
          => /\ last'.lookup
             /\ NamedJoints # {}
                  => \E j \in NamedJoints : jointEntity' = j.id
             /\ NamedJoints = {} => jointEntity' = kNullEntity]_vars
  /\ [][(jointEntity = kNullEntity /\ jointEntity' # kNullEntity)
          => StepCalled]_vars
  /\ (configured # "no" /\ NamedJoints # {}) ~> (jointEntity # kNullEntity)

\* C17 witness: a paused call of PreUpdate looked the joint up and resolved
\* the handle; being paused, it created no component.
C17_Witness ==
  /\ configured = "ok"
  /\ info.paused
  /\ last.lookup
  /\ stepPc = "idle"
  /\ jointEntity # kNullEntity
  /\ jointVelocity[jointEntity] = NoComp

\* C18: measured velocity precedes commands. A command component is
\* created or overwritten, and the PID state advances, only at the end of
\* a PreUpdate call at whose start the joint already had a JointVelocity
\* component. Hence a joint with a command component has a JointVelocity
\* component, and the call that creates the JointVelocity component
\* returns without writing a command component.
C18_MeasuredVelocityFirst ==
  /\ [][(\/ jointVelocityCmd' # jointVelocityCmd
          \/ jointForceCmd' # jointForceCmd
          \/ (velPid' # velPid /\ configured' = configured))
          => /\ StepWrites
             /\ ~last.created
             /\ jointEntity # kNullEntity
             /\ jointVelocity[jointEntity] # NoComp]_vars
  /\ [](\A id \in JointIds :
          (jointVelocityCmd[id] # NoComp \/ jointForceCmd[id] # NoComp)
            => jointVelocity[id] # NoComp)
  /\ [](last.created => (~last.wrote /\ stepPc = "idle"))
  /\ [][(StepCalled /\ last'.created)
          => UNCHANGED <<jointVelocityCmd, jointForceCmd, velPid>>]_vars

\* C18 witness: a call that found the JointVelocity component in place has
\* created the joint's first command component.
C18_Witness ==
  /\ configured = "ok"
  /\ stepPc = "idle"
  /\ last.wrote
  /\ ~last.existed
  /\ ~last.created
  /\ jointVelocity[jointEntity] # NoComp
  /\ (jointVelocityCmd[jointEntity] # NoComp \/ jointForceCmd[jointEntity] # NoComp)

====
